---- MODULE Spec2Model ----
(***************************************************************************)
(* State-machine model of AIWorkflowBuilder (src/ai_workflow_builder.py):  *)
(* the task list, the workflow registry, the results directory and the     *)
(* coroutines execute_task / execute_workflow, which suspend only at the   *)
(* generation-backend call; and of the session state the Streamlit front   *)
(* end (src/config_py.py) keeps beside the orchestrator.                   *)
(*                                                                         *)
(* Python values are modelled as follows.                                  *)
(*   None                 [py |-> "None"]                                  *)
(*   dict                 a record                                         *)
(*   str (text)           a sequence of one-character strings              *)
(*   str (label, message) a string                                         *)
(*   TaskType member      [enum |-> "TaskType", name |-> .., value |-> ..] *)
(*   a str used as type   [str |-> ..]                                     *)
(*   datetime.isoformat() [iso |-> n], n the clock reading in seconds      *)
(*   a file path          [name |-> .., suffix |-> ..]                     *)
(***************************************************************************)
EXTENDS Integers, Sequences, FiniteSets, TLC

VARIABLES
    tasks,      \* self.tasks: the list of Task records, in insertion order
    workflows,  \* self.workflows: name -> list of task ids
    files,      \* the results directory: file name -> parsed JSON content
    now,        \* the wall clock read by datetime.now(), in seconds
    calls,      \* per caller: the coroutine suspended at the backend, or idle
    last,       \* how the latest call ended, until the next call begins
    ops,        \* the number of calls made so far, add_task aside
    workflow_builder,  \* the instance the caller holds: None, or its api_key
    active_tasks       \* st.session_state.active_tasks: the front end's ids

vars ==
    <<tasks, workflows, files, now, calls, last, ops, workflow_builder, active_tasks>>

----------------------------------------------------------------------------
(* Bounds of the model *)

MaxTasks == 3
MaxWfLen == 3
MaxSec == 1
MaxOps == 3
MaxSoloTasks == 2
MaxSoloOps == 2
MaxSessionTasks == 2
MaxSessionLen == 2
MaxSessionOps == 2
MaxTextLen == 3
MaxKindTasks == 1
MaxKindOps == 2
MaxSummaryOps == 2
MaxOverlapTasks == 2
MaxOverlapOps == 3

----------------------------------------------------------------------------
(* Values *)

None == [py |-> "None"]

CONTENT_WRITING == [enum |-> "TaskType", name |-> "CONTENT_WRITING", value |-> "content_writing"]
DATA_ANALYSIS == [enum |-> "TaskType", name |-> "DATA_ANALYSIS", value |-> "data_analysis"]
TEXT_SUMMARIZATION == [enum |-> "TaskType", name |-> "TEXT_SUMMARIZATION", value |-> "text_summarization"]
EMAIL_GENERATION == [enum |-> "TaskType", name |-> "EMAIL_GENERATION", value |-> "email_generation"]
TRANSLATION == [enum |-> "TaskType", name |-> "TRANSLATION", value |-> "translation"]
CODE_GENERATION == [enum |-> "TaskType", name |-> "CODE_GENERATION", value |-> "code_generation"]

TaskType ==
    {CONTENT_WRITING, DATA_ANALYSIS, TEXT_SUMMARIZATION, EMAIL_GENERATION,
     TRANSLATION, CODE_GENERATION}

(* datetime.now().isoformat(): order-preserving rendering of the clock *)
isoformat(t) == [iso |-> t]

(* datetime.now().strftime('%H%M%S'): the time of day, the date dropped *)
Pad2(n) == IF n < 10 THEN "0" \o ToString(n) ELSE ToString(n)

strftime_HMS(t) ==
    Pad2((t \div 3600) % 24) \o Pad2((t \div 60) % 60) \o Pad2(t % 60)

(* The instants the clock can show: MaxSec + 1 consecutive seconds *)
Instants == 0..MaxSec

----------------------------------------------------------------------------
(* Texts: str.split() and truthiness *)

Whitespace == {" ", "\t", "\n"}

(* len(text.split()): the number of maximal runs of non-whitespace *)
WordCount(text) ==
    Cardinality({i \in 1..Len(text) :
                    /\ text[i] \notin Whitespace
                    /\ (i = 1 \/ text[i - 1] \in Whitespace)})

(* dict.get(key, default) *)
Get(d, key, default) == IF key \in DOMAIN d THEN d[key] ELSE default

----------------------------------------------------------------------------
(* The environment: what callers pass in and what the outside world answers *)

TextOneTwo == <<"a", " ", "b">>
TextFive == <<"a", " ", "b", " ", "c", " ", "d", " ", "e">>

(* Arguments of add_task *)
ReqContent ==
    [type |-> CONTENT_WRITING, title |-> "article", description |-> "write",
     input_data |-> [prompt |-> TextOneTwo]]
ReqAnalysisMissing ==
    [type |-> DATA_ANALYSIS, title |-> "analysis", description |-> "analyse",
     input_data |-> [data_path |-> [name |-> "missing", suffix |-> ".csv"]]]
ReqUnsupported ==
    [type |-> [str |-> "video_editing"], title |-> "video", description |-> "edit",
     input_data |-> [prompt |-> TextOneTwo]]
ReqMalformed ==
    [type |-> CODE_GENERATION, title |-> "code", description |-> "program",
     input_data |-> None]
ReqSummarize ==
    [type |-> TEXT_SUMMARIZATION, title |-> "summary", description |-> "summarise",
     input_data |-> [text |-> TextFive, max_length |-> 2]]

Requests ==
    {ReqContent, ReqAnalysisMissing, ReqUnsupported, ReqMalformed, ReqSummarize}

(* The texts a summarization task is given and the backend answers with:
   up to MaxTextLen characters, letters and spaces, and the text of five words;
   and the input_data of the task, with or without a text *)
Alphabet == {"a", " "}
Texts == UNION {[1..n -> Alphabet] : n \in 0..MaxTextLen} \cup {TextFive}
SummaryInputs == {[text |-> text, max_length |-> 2] : text \in Texts} \cup {[max_length |-> 2]}
SummaryOutcomes ==
    {[ok |-> TRUE, content |-> c] : c \in Texts}
        \cup {[ok |-> FALSE, error |-> "Error communicating with OpenAI"]}

(* Paths that exist on disk, and those among them pandas cannot parse *)
ExistingPaths ==
    {[name |-> "data", suffix |-> ".csv"], [name |-> "data", suffix |-> ".json"],
     [name |-> "data", suffix |-> ".txt"], [name |-> "bad", suffix |-> ".csv"]}
UnreadablePaths == {[name |-> "bad", suffix |-> ".csv"]}

(* The paths a data_analysis task may name: those that exist, two that do
   not, and the empty path *)
AnalysisPaths ==
    ExistingPaths \cup {[name |-> "missing", suffix |-> ".csv"],
                        [name |-> "missing", suffix |-> ".txt"],
                        [name |-> "", suffix |-> ""]}

(* The input_data of a data_analysis task, with or without a data_path *)
AnalysisInputs ==
    {[data_path |-> path] : path \in AnalysisPaths} \cup {[analysis_type |-> "general"]}

ReqEmail ==
    [type |-> EMAIL_GENERATION, title |-> "email", description |-> "mail",
     input_data |-> [purpose |-> TextOneTwo]]
ReqTranslate ==
    [type |-> TRANSLATION, title |-> "translation", description |-> "translate",
     input_data |-> [text |-> TextOneTwo]]

(* Arguments of add_task of every kind: the six types, a type that is none of
   them, an input that is no dict, and every input of a data_analysis task *)
KindRequests ==
    Requests \cup {ReqEmail, ReqTranslate}
        \cup {[type |-> DATA_ANALYSIS, title |-> "analysis", description |-> "analyse",
               input_data |-> input_data] : input_data \in AnalysisInputs}

(* What openai.ChatCompletion.acreate does: returns a text or raises *)
Responses == {TextOneTwo}
BackendOutcomes ==
    {[ok |-> TRUE, content |-> c] : c \in Responses}
        \cup {[ok |-> FALSE, error |-> "Error communicating with OpenAI"]}

(* What open(filepath, 'w') does: opens the file or raises OSError *)
WriteOutcomes ==
    {[ok |-> TRUE], [ok |-> FALSE, error |-> "[Errno 28] No space left on device"]}

(* What a caller passes as api_key, and what os.getenv('OPENAI_API_KEY')
   gives: nothing, the empty string or a key *)
Credentials == {None, [str |-> ""], [str |-> "sk-test"]}

(* bool(v) of None or a str *)
truthy(v) == v # None /\ v.str # ""

(* A results directory in which an earlier instance left a file *)
LeftoverFiles ==
    [f \in {"task_0_000000_content_writing.json"} |-> [id |-> "task_0_000000"]]

WorkflowNames == {"w1", "w2"}
Formats == {"json", "csv"}
Callers == {1, 2}

----------------------------------------------------------------------------
(* Task (dataclass) *)

(* Task.__init__ followed by __post_init__ *)
(* Mutant of Task: the new task starts with its input as its output *)
Task_output_preset(id, type, title, description, input_data) ==
    [id |-> id, type |-> type, title |-> title, description |-> description,
     input_data |-> input_data, output_data |-> input_data, status |-> "pending",
     created_at |-> isoformat(now), completed_at |-> None]

(* Task(id=, type=, title=, description=, input_data=): the other fields take
   their defaults, and __post_init__ replaces the empty created_at by now *)
Task(id, type, title, description, input_data) ==
    [id |-> id, type |-> type, title |-> title, description |-> description,
     input_data |-> input_data, output_data |-> None, status |-> "pending",
     created_at |-> isoformat(now), completed_at |-> None]

(* dataclasses.asdict(task): a dict with the fields of the task, the enum
   member kept as it is *)
asdict(task) ==
    [id |-> task.id, type |-> task.type, title |-> task.title,
     description |-> task.description, input_data |-> task.input_data,
     output_data |-> task.output_data, status |-> task.status,
     created_at |-> task.created_at, completed_at |-> task.completed_at]

(* The ids of the tasks of a list *)
Ids(ts) == {ts[i].id : i \in 1..Len(ts)}

----------------------------------------------------------------------------
(* The handlers execute_task dispatches to.  Each runs synchronously up to
   its backend call (X_before: the message of the exception raised before
   the call, or NoError) and, once the backend has answered with content,
   shapes the result (X_after: the result, or the exception raised) *)

NoError == ""
Result(r) == [ok |-> TRUE, result |-> r]
Raise(msg) == [ok |-> FALSE, error |-> msg]

(* input_data.get(...) on something that is not a dict *)
NotADict(input_data) == input_data = None
AttributeErrorGet == "'NoneType' object has no attribute 'get'"

_generate_content_before(input_data) ==
    IF NotADict(input_data) THEN AttributeErrorGet ELSE NoError

_generate_content_after(input_data, content) ==
    Result([content |-> content,
            word_count |-> WordCount(content),
            content_type |-> Get(input_data, "content_type", "article"),
            language |-> Get(input_data, "language", "arabic")])

(* str.endswith on a path *)
endswith(path, suffix) == path.suffix = suffix

(* Mutant of _analyze_data_before: the extension is tested first *)
_analyze_data_before_extension_first(input_data) ==
    IF NotADict(input_data) THEN AttributeErrorGet
    ELSE LET data_path == Get(input_data, "data_path", None)
         IN  IF data_path = None THEN "data file does not exist"
             ELSE IF ~(endswith(data_path, ".csv") \/ endswith(data_path, ".json"))
             THEN "unsupported file type"
             ELSE IF data_path \notin ExistingPaths THEN "data file does not exist"
             ELSE IF data_path \in UnreadablePaths THEN "Error tokenizing data"
             ELSE NoError

_analyze_data_before(input_data) ==
    IF NotADict(input_data) THEN AttributeErrorGet
    ELSE LET data_path == Get(input_data, "data_path", None)
         IN  IF data_path = None \/ data_path \notin ExistingPaths
             THEN "data file does not exist"
             ELSE IF endswith(data_path, ".csv") \/ endswith(data_path, ".json")
             THEN IF data_path \in UnreadablePaths
                  THEN "Error tokenizing data"
                  ELSE NoError
             ELSE "unsupported file type"

_analyze_data_after(input_data, content) ==
    Result([rows_count |-> 2, columns_count |-> 1, columns |-> <<"x">>,
            ai_insights |-> content])

_summarize_text_before(input_data) ==
    IF NotADict(input_data) THEN AttributeErrorGet ELSE NoError

(* a / b as a float: the pair of the two integers *)
Ratio(a, b) == [num |-> a, den |-> b]

_summarize_text_after(input_data, content) ==
    LET text == Get(input_data, "text", <<>>)
    IN  IF Len(text) > 0 /\ WordCount(text) = 0
        THEN Raise("division by zero")
        ELSE Result([original_length |-> WordCount(text),
                     summary |-> content,
                     summary_length |-> WordCount(content),
                     compression_ratio |->
                         IF Len(text) > 0
                         THEN Ratio(WordCount(content), WordCount(text))
                         ELSE Ratio(0, 1)])

_generate_email_before(input_data) ==
    IF NotADict(input_data) THEN AttributeErrorGet ELSE NoError

_generate_email_after(input_data, content) ==
    Result([email_content |-> content,
            purpose |-> Get(input_data, "purpose", <<>>),
            tone |-> Get(input_data, "tone", "professional"),
            language |-> Get(input_data, "language", "arabic")])

_translate_text_before(input_data) ==
    IF NotADict(input_data) THEN AttributeErrorGet ELSE NoError

_translate_text_after(input_data, content) ==
    Result([original_text |-> Get(input_data, "text", <<>>),
            translated_text |-> content,
            source_language |-> Get(input_data, "source_language", "auto"),
            target_language |-> Get(input_data, "target_language", "arabic")])

_generate_code_before(input_data) ==
    IF NotADict(input_data) THEN AttributeErrorGet ELSE NoError

_generate_code_after(input_data, content) ==
    Result([code |-> content,
            programming_language |-> Get(input_data, "programming_language", "python"),
            description |-> Get(input_data, "description", <<>>)])

(* The if/elif chain of execute_task, up to the backend call *)
dispatch_before(task) ==
    IF task.type = CONTENT_WRITING THEN _generate_content_before(task.input_data)
    ELSE IF task.type = DATA_ANALYSIS THEN _analyze_data_before(task.input_data)
    ELSE IF task.type = TEXT_SUMMARIZATION THEN _summarize_text_before(task.input_data)
    ELSE IF task.type = EMAIL_GENERATION THEN _generate_email_before(task.input_data)
    ELSE IF task.type = TRANSLATION THEN _translate_text_before(task.input_data)
    ELSE IF task.type = CODE_GENERATION THEN _generate_code_before(task.input_data)
    ELSE "unsupported task type"

(* The same chain, from the backend's answer on *)
dispatch_after(task, content) ==
    IF task.type = CONTENT_WRITING THEN _generate_content_after(task.input_data, content)
    ELSE IF task.type = DATA_ANALYSIS THEN _analyze_data_after(task.input_data, content)
    ELSE IF task.type = TEXT_SUMMARIZATION THEN _summarize_text_after(task.input_data, content)
    ELSE IF task.type = EMAIL_GENERATION THEN _generate_email_after(task.input_data, content)
    ELSE IF task.type = TRANSLATION THEN _translate_text_after(task.input_data, content)
    ELSE _generate_code_after(task.input_data, content)

----------------------------------------------------------------------------
(* JSON files *)

(* json.dump(..., default=str) of a value the encoder cannot serialise:
   str(member) of an Enum member is "ClassName.MEMBER" *)
json_default(v) ==
    IF "enum" \in DOMAIN v THEN [str |-> v.enum \o "." \o v.name] ELSE v

(* json.dump of asdict(task), read back with json.load *)
json_task(task) == [asdict(task) EXCEPT !.type = json_default(@)]

(* open(filepath, 'w') followed by json.dump: the directory afterwards *)
write_file(fs, filename, content) ==
    [f \in DOMAIN fs \cup {filename} |-> IF f = filename THEN content ELSE fs[f]]

(* f"{task.id}_{task.type.value}.json" *)
result_filename(task) == task.id \o "_" \o task.type.value \o ".json"

(* f"{workflow_name}_results.json" *)
export_filename(workflow_name) == workflow_name \o "_results.json"

(* str(self.results_dir / filename) *)
results_path(filename) == "results/" \o filename

----------------------------------------------------------------------------
(* Operations on the task list *)

(* Mutant of new_task_id: the id without the index *)
new_task_id_no_index(ts, t) == "task_" \o strftime_HMS(t)

(* f"task_{len(self.tasks)}_{datetime.now().strftime('%H%M%S')}" *)
new_task_id(ts, t) == "task_" \o ToString(Len(ts)) \o "_" \o strftime_HMS(t)

Range(seq) == {seq[i] : i \in 1..Len(seq)}

(* Mutant of tasks_in: every task is taken, whatever the ids *)
tasks_in_all(ts, task_ids) == [i \in 1..Len(ts) |-> i]

(* Mutant of tasks_in: one position per entry of task_ids that is the id of
   a task, in the order of task_ids *)
tasks_in_listed(ts, task_ids) ==
    LET present == SelectSeq(task_ids,
                             LAMBDA id : \E i \in 1..Len(ts) : ts[i].id = id)
    IN  [k \in 1..Len(present) |-> CHOOSE i \in 1..Len(ts) : ts[i].id = present[k]]

(* [t for t in self.tasks if t.id in task_ids], as positions in self.tasks *)
tasks_in(ts, task_ids) ==
    SelectSeq([i \in 1..Len(ts) |-> i], LAMBDA i : ts[i].id \in Range(task_ids))

(* list_tasks() *)
list_tasks == [i \in 1..Len(tasks) |-> asdict(tasks[i])]

(* execute_task, line 81 *)
set_running(task) == [task EXCEPT !.status = "running"]

(* Mutant of set_completed: created_at is stamped as well *)
set_completed_restamped(task, result) ==
    [task EXCEPT !.output_data = result,
                 !.status = "completed",
                 !.created_at = isoformat(now),
                 !.completed_at = isoformat(now)]

(* Mutant of set_completed: the status is left as it is *)
set_completed_still_running(task, result) ==
    [task EXCEPT !.output_data = result, !.completed_at = isoformat(now)]

(* Mutant of set_completed: completed_at is not assigned *)
set_completed_no_timestamp(task, result) ==
    [task EXCEPT !.output_data = result, !.status = "completed"]

(* execute_task, lines 99-101 *)
set_completed(task, result) ==
    [task EXCEPT !.output_data = result,
                 !.status = "completed",
                 !.completed_at = isoformat(now)]

(* Mutant of set_failed: the error is not recorded *)
set_failed_no_error(task, message) == [task EXCEPT !.status = "failed"]

(* execute_task, lines 110-111 *)
set_failed(task, message) ==
    [task EXCEPT !.status = "failed", !.output_data = [error |-> message]]

----------------------------------------------------------------------------
(* Coroutines.  A caller is idle or suspended at the backend call of the
   task at position pos of todo, the list tasks_to_execute (for a direct
   execute_task call, the one task) *)

Idle == [pc |-> "idle"]

AllIdle == \A c \in Callers : calls[c] = Idle

(* No call has ended since the latest one began *)
NoCall ==
    [op |-> "none", arg |-> None, task_ids |-> <<>>, started |-> <<>>,
     invoked |-> <<>>, outcome |-> "none", value |-> None]

(* How a finished call ended; started lists the positions of the tasks
   passed to execute_task, in the order of the calls, and invoked those of
   the tasks for which the backend was called *)
Ended(op, arg, task_ids, started, outcome, value) ==
    [op |-> op, arg |-> arg, task_ids |-> task_ids, started |-> started,
     invoked |-> <<>>, outcome |-> outcome, value |-> value]

Returned(cl, value) ==
    [Ended(cl.op, cl.arg, cl.task_ids, cl.started, "returned", value)
        EXCEPT !.invoked = cl.invoked]

Raised(cl, message) ==
    [Ended(cl.op, cl.arg, cl.task_ids, cl.started, "raised", [error |-> message])
        EXCEPT !.invoked = cl.invoked]

(* Mutant of run: the backend is called before the input is looked at *)
run_eager(ts, cl) ==
    IF cl.pos > Len(cl.todo)
    THEN [tasks |-> ts, call |-> Idle,
          last |-> Returned(cl, IF cl.op = "execute_task"
                                THEN [result |-> cl.results[1]]
                                ELSE [results |-> cl.results])]
    ELSE LET i == cl.todo[cl.pos]
             cl1 == [cl EXCEPT !.started = Append(@, i), !.invoked = Append(@, i)]
             ts1 == [ts EXCEPT ![i] = set_running(@)]
             message == dispatch_before(ts1[i])
         IN  IF message = NoError
             THEN [tasks |-> ts1, call |-> [cl1 EXCEPT !.pc = "backend"],
                   last |-> IF cl.pos = 1 THEN NoCall ELSE last]
             ELSE [tasks |-> [ts1 EXCEPT ![i] = set_failed(@, message)],
                   call |-> Idle, last |-> Raised(cl1, message)]

(* Runs the coroutine cl from the loop head of execute_workflow (lines
   316-321) until it suspends, returns or raises: the task at pos, if any,
   is passed to execute_task, which runs up to its backend call *)
run(ts, cl) ==
    IF cl.pos > Len(cl.todo)
    THEN [tasks |-> ts, call |-> Idle,
          last |-> Returned(cl, IF cl.op = "execute_task"
                                THEN [result |-> cl.results[1]]
                                ELSE [results |-> cl.results])]
    ELSE LET i == cl.todo[cl.pos]
             cl1 == [cl EXCEPT !.started = Append(@, i)]
             ts1 == [ts EXCEPT ![i] = set_running(@)]
             message == dispatch_before(ts1[i])
         IN  IF message = NoError
             THEN [tasks |-> ts1,
                   call |-> [cl1 EXCEPT !.pc = "backend", !.invoked = Append(@, i)],
                   last |-> IF cl.pos = 1 THEN NoCall ELSE last]
             ELSE [tasks |-> [ts1 EXCEPT ![i] = set_failed(@, message)],
                   call |-> Idle, last |-> Raised(cl1, message)]

(* A new coroutine of operation op over the tasks at positions todo *)
coroutine(op, arg, task_ids, todo) ==
    [pc |-> "start", op |-> op, arg |-> arg, task_ids |-> task_ids,
     todo |-> todo, pos |-> 1, results |-> <<>>, started |-> <<>>,
     invoked |-> <<>>]

----------------------------------------------------------------------------
(* The operations of AIWorkflowBuilder *)

Init ==
    /\ tasks = <<>>
    /\ workflows = <<>>
    /\ files = <<>>
    /\ now = 0
    /\ calls = [c \in Callers |-> Idle]
    /\ last = NoCall
    /\ ops = 0
    /\ workflow_builder = [api_key |-> [str |-> "sk-test"]]
    /\ active_tasks = <<>>

(* The clock advances between (and during) calls *)
Tick ==
    /\ \E t \in Instants : t > now /\ now' = t
    /\ UNCHANGED <<tasks, workflows, files, calls, last, ops, workflow_builder,
                   active_tasks>>

(* Mutant of add_task: a type that is no member of TaskType is refused *)
add_task_validating(task_type, title, description, input_data) ==
    LET task_id == new_task_id(tasks, now)
        task == Task(task_id, task_type, title, description, input_data)
    IN  IF task_type \in TaskType
        THEN /\ tasks' = Append(tasks, task)
             /\ last' = Ended("add_task", [title |-> title], <<>>, <<>>, "returned",
                              [id |-> task_id])
             /\ UNCHANGED <<workflows, files, now, calls>>
        ELSE /\ last' = Ended("add_task", [title |-> title], <<>>, <<>>, "raised",
                              [error |-> "invalid task type"])
             /\ UNCHANGED <<tasks, workflows, files, now, calls>>

add_task(task_type, title, description, input_data) ==
    LET task_id == new_task_id(tasks, now)
        task == Task(task_id, task_type, title, description, input_data)
    IN  /\ tasks' = Append(tasks, task)
        /\ last' = Ended("add_task", [title |-> title], <<>>, <<>>, "returned",
                         [id |-> task_id])
        /\ UNCHANGED <<workflows, files, now, calls>>

(* Mutant of create_workflow: the ids are added to the list already stored *)
create_workflow_merging(workflow_name, task_ids) ==
    /\ workflows' = [n \in DOMAIN workflows \cup {workflow_name} |->
                        IF n # workflow_name THEN workflows[n]
                        ELSE IF n \in DOMAIN workflows THEN workflows[n] \o task_ids
                        ELSE task_ids]
    /\ last' = Ended("create_workflow", [name |-> workflow_name], task_ids, <<>>,
                     "returned", None)
    /\ UNCHANGED <<tasks, files, now, calls>>

create_workflow(workflow_name, task_ids) ==
    /\ workflows' = [n \in DOMAIN workflows \cup {workflow_name} |->
                        IF n = workflow_name THEN task_ids ELSE workflows[n]]
    /\ last' = Ended("create_workflow", [name |-> workflow_name], task_ids, <<>>,
                     "returned", None)
    /\ UNCHANGED <<tasks, files, now, calls>>

(* execute_task(task) called directly by caller c on the task at position i
   of self.tasks: runs up to the backend call *)
(* Mutant of execute_task: a task that is completed or failed is not run
   again *)
execute_task_guarded(c, i) ==
    IF tasks[i].status \in {"completed", "failed"}
    THEN /\ last' = Ended("execute_task", [task |-> i], <<tasks[i].id>>, <<>>,
                          "returned", [result |-> tasks[i].output_data])
         /\ UNCHANGED <<tasks, workflows, files, now, calls>>
    ELSE LET r == run(tasks, coroutine("execute_task", [task |-> i],
                                       <<tasks[i].id>>, <<i>>))
         IN  /\ tasks' = r.tasks
             /\ calls' = [calls EXCEPT ![c] = r.call]
             /\ last' = r.last
             /\ UNCHANGED <<workflows, files, now>>

execute_task(c, i) ==
    LET r == run(tasks, coroutine("execute_task", [task |-> i], <<tasks[i].id>>, <<i>>))
    IN  /\ tasks' = r.tasks
        /\ calls' = [calls EXCEPT ![c] = r.call]
        /\ last' = r.last
        /\ UNCHANGED <<workflows, files, now>>

(* Mutant of execute_workflow: an unregistered name is an empty workflow *)
execute_workflow_unchecked(c, workflow_name) ==
    LET task_ids == IF workflow_name \in DOMAIN workflows
                    THEN workflows[workflow_name] ELSE <<>>
        r == run(tasks, coroutine("execute_workflow", [name |-> workflow_name],
                                  task_ids, tasks_in(tasks, task_ids)))
    IN  /\ tasks' = r.tasks
        /\ calls' = [calls EXCEPT ![c] = r.call]
        /\ last' = r.last
        /\ UNCHANGED <<workflows, files, now>>

(* execute_workflow(workflow_name) called by caller c: runs up to the
   backend call of the first task *)
execute_workflow(c, workflow_name) ==
    IF workflow_name \notin DOMAIN workflows
    THEN /\ last' = Ended("execute_workflow", [name |-> workflow_name], <<>>, <<>>,
                          "raised", [error |-> "workflow not found"])
         /\ UNCHANGED <<tasks, workflows, files, now, calls>>
    ELSE LET task_ids == workflows[workflow_name]
             tasks_to_execute == tasks_in(tasks, task_ids)
             r == run(tasks, coroutine("execute_workflow", [name |-> workflow_name],
                                       task_ids, tasks_to_execute))
         IN  /\ tasks' = r.tasks
             /\ calls' = [calls EXCEPT ![c] = r.call]
             /\ last' = r.last
             /\ UNCHANGED <<workflows, files, now>>

(* Mutant of backend_returns: after a failure the workflow goes on with the
   next task *)
backend_returns_continue(c, b, w) ==
    LET cl == calls[c]
        i == cl.todo[cl.pos]
        shaped == IF b.ok THEN dispatch_after(tasks[i], b.content) ELSE Raise(b.error)
        done == set_completed(tasks[i], shaped.result)
        failure == IF ~shaped.ok THEN shaped.error
                   ELSE IF ~w.ok THEN w.error
                   ELSE NoError
        settled == IF failure = NoError THEN done
                   ELSE set_failed(IF shaped.ok THEN done ELSE tasks[i], failure)
        r == run([tasks EXCEPT ![i] = settled],
                 [cl EXCEPT !.pos = @ + 1,
                            !.results = Append(@, settled.output_data)])
    IN  /\ cl.pc = "backend"
        /\ tasks' = r.tasks
        /\ calls' = [calls EXCEPT ![c] = r.call]
        /\ last' = r.last
        /\ files' = IF failure = NoError
                    THEN write_file(files, result_filename(done), json_task(done))
                    ELSE files
        /\ UNCHANGED <<workflows, now>>

(* Mutant of backend_returns: a task that another call has settled in the
   meantime keeps what that call wrote *)
backend_returns_first_wins(c, b, w) ==
    LET cl == calls[c]
        i == cl.todo[cl.pos]
        settled == tasks[i].status # "running"
        shaped == IF b.ok THEN dispatch_after(tasks[i], b.content) ELSE Raise(b.error)
        done == IF settled THEN tasks[i] ELSE set_completed(tasks[i], shaped.result)
        failure == IF ~shaped.ok THEN shaped.error
                   ELSE IF ~w.ok THEN w.error
                   ELSE NoError
    IN  /\ cl.pc = "backend"
        /\ IF failure = NoError
           THEN LET r == run([tasks EXCEPT ![i] = done],
                             [cl EXCEPT !.pos = @ + 1,
                                        !.results = Append(@, shaped.result)])
                IN  /\ tasks' = r.tasks
                    /\ calls' = [calls EXCEPT ![c] = r.call]
                    /\ last' = r.last
                    /\ files' = write_file(files, result_filename(done), json_task(done))
           ELSE /\ tasks' = [tasks EXCEPT ![i] =
                                IF settled THEN @
                                ELSE set_failed(IF shaped.ok THEN done ELSE @, failure)]
                /\ calls' = [calls EXCEPT ![c] = Idle]
                /\ last' = Raised(cl, failure)
                /\ UNCHANGED files
        /\ UNCHANGED <<workflows, now>>

(* The backend call of caller c ends with outcome b; execute_task resumes
   (lines 99-113), writing the result file with outcome w, and the caller
   runs on to its next suspension *)
backend_returns(c, b, w) ==
    LET cl == calls[c]
        i == cl.todo[cl.pos]
        shaped == IF b.ok THEN dispatch_after(tasks[i], b.content) ELSE Raise(b.error)
        done == set_completed(tasks[i], shaped.result)
        failure == IF ~shaped.ok THEN shaped.error
                   ELSE IF ~w.ok THEN w.error
                   ELSE NoError
    IN  /\ cl.pc = "backend"
        /\ IF failure = NoError
           THEN LET r == run([tasks EXCEPT ![i] = done],
                             [cl EXCEPT !.pos = @ + 1,
                                        !.results = Append(@, shaped.result)])
                IN  /\ tasks' = r.tasks
                    /\ calls' = [calls EXCEPT ![c] = r.call]
                    /\ last' = r.last
                    /\ files' = write_file(files, result_filename(done), json_task(done))
           ELSE /\ tasks' = [tasks EXCEPT ![i] =
                                set_failed(IF shaped.ok THEN done ELSE @, failure)]
                /\ calls' = [calls EXCEPT ![c] = Idle]
                /\ last' = Raised(cl, failure)
                /\ UNCHANGED files
        /\ UNCHANGED <<workflows, now>>

(* The asyncio task running caller c is cancelled while it waits for the
   backend (Task.cancel(), or Ctrl-C under asyncio.run): CancelledError is
   raised at the await, it is not an Exception, so the except branch of
   execute_task (line 109) is not entered and the error leaves the call *)
cancel(c) ==
    LET cl == calls[c]
    IN  /\ cl.pc = "backend"
        /\ calls' = [calls EXCEPT ![c] = Idle]
        /\ last' = [Ended(cl.op, cl.arg, cl.task_ids, cl.started, "cancelled",
                          [error |-> "CancelledError"])
                       EXCEPT !.invoked = cl.invoked]
        /\ UNCHANGED <<tasks, workflows, files, now>>

export_workflow_results(workflow_name, format, w) ==
    IF workflow_name \notin DOMAIN workflows
    THEN /\ last' = Ended("export_workflow_results",
                          [name |-> workflow_name, format |-> format], <<>>, <<>>,
                          "raised", [error |-> "workflow not found"])
         /\ UNCHANGED <<tasks, workflows, files, now, calls>>
    ELSE LET task_ids == workflows[workflow_name]
             workflow_tasks == tasks_in(tasks, task_ids)
             results == [workflow_name |-> workflow_name,
                         execution_date |-> isoformat(now),
                         tasks |-> [k \in 1..Len(workflow_tasks) |->
                                       json_task(tasks[workflow_tasks[k]])]]
             filename == export_filename(workflow_name)
             failure == IF format = "json"
                        THEN IF w.ok THEN NoError ELSE w.error
                        ELSE "local variable 'filepath' referenced before assignment"
         IN  /\ files' = IF format = "json" /\ w.ok
                         THEN write_file(files, filename, results)
                         ELSE files
             /\ last' = Ended("export_workflow_results",
                              [name |-> workflow_name, format |-> format],
                              task_ids, <<>>,
                              IF failure = NoError THEN "returned" ELSE "raised",
                              IF failure = NoError
                              THEN [path |-> results_path(filename)]
                              ELSE [error |-> failure])
             /\ UNCHANGED <<tasks, workflows, now, calls>>

(* Mutant of __init__: the key is not tested *)
__init__unchecked(api_key, getenv) ==
    /\ workflow_builder' = [api_key |-> IF truthy(api_key) THEN api_key ELSE getenv]
    /\ tasks' = <<>>
    /\ workflows' = <<>>
    /\ last' = Ended("__init__", [api_key |-> api_key, getenv |-> getenv], <<>>, <<>>,
                     "returned", None)
    /\ UNCHANGED <<files, now, calls, active_tasks>>

(* AIWorkflowBuilder(api_key) with OPENAI_API_KEY set to getenv: raises
   before any attribute but api_key is set, or gives a new instance; the
   results directory is created if absent, its files left as they are *)
__init__(api_key, getenv) ==
    LET key == IF truthy(api_key) THEN api_key ELSE getenv
        arg == [api_key |-> api_key, getenv |-> getenv]
    IN  IF ~truthy(key)
        THEN /\ last' = Ended("__init__", arg, <<>>, <<>>, "raised",
                              [error |-> "OpenAI API key is required"])
             /\ UNCHANGED <<tasks, workflows, files, now, calls, workflow_builder,
                            active_tasks>>
        ELSE /\ workflow_builder' = [api_key |-> key]
             /\ tasks' = <<>>
             /\ workflows' = <<>>
             /\ last' = Ended("__init__", arg, <<>>, <<>>, "returned", None)
             /\ UNCHANGED <<files, now, calls, active_tasks>>

(* Mutant of get_task_status: an id that matches no task raises *)
get_task_status_strict(task_id) ==
    LET found == {i \in 1..Len(tasks) : tasks[i].id = task_id}
        first == CHOOSE i \in found : \A j \in found : i <= j
    IN  /\ last' = IF found = {}
                   THEN Ended("get_task_status", [task_id |-> task_id], <<>>, <<>>,
                              "raised", [error |-> "task not found"])
                   ELSE Ended("get_task_status", [task_id |-> task_id], <<>>, <<>>,
                              "returned", asdict(tasks[first]))
        /\ UNCHANGED <<tasks, workflows, files, now, calls>>

get_task_status(task_id) ==
    LET found == {i \in 1..Len(tasks) : tasks[i].id = task_id}
        first == CHOOSE i \in found : \A j \in found : i <= j
    IN  /\ last' = Ended("get_task_status", [task_id |-> task_id], <<>>, <<>>,
                         "returned",
                         IF found = {} THEN [error |-> "task not found"]
                         ELSE asdict(tasks[first]))
        /\ UNCHANGED <<tasks, workflows, files, now, calls>>

(* The front end's button of create_task_interface: add_task on the
   orchestrator, and the id appended to the session's active_tasks *)
create_task_interface(task_type, title, description, input_data) ==
    /\ add_task(task_type, title, description, input_data)
    /\ active_tasks' = Append(active_tasks, new_task_id(tasks, now))
    /\ UNCHANGED workflow_builder

(* list.remove(x): the list without the first occurrence of x *)
remove(list, x) ==
    LET first == CHOOSE i \in 1..Len(list) :
                    list[i] = x /\ \A j \in 1..(i - 1) : list[j] # x
    IN  SubSeq(list, 1, first - 1) \o SubSeq(list, first + 1, Len(list))

(* Mutant of delete_task: the task leaves the orchestrator's list as well *)
delete_task_everywhere(task_id) ==
    /\ active_tasks' = SelectSeq(active_tasks, LAMBDA id : id # task_id)
    /\ tasks' = SelectSeq(tasks, LAMBDA t : t.id # task_id)
    /\ UNCHANGED <<workflows, files, now, calls, last, workflow_builder>>

(* The front end's delete_task: the id leaves the session's active_tasks;
   the orchestrator is not called *)
delete_task(task_id) ==
    /\ active_tasks' = IF task_id \in Range(active_tasks)
                       THEN remove(active_tasks, task_id)
                       ELSE active_tasks
    /\ UNCHANGED <<tasks, workflows, files, now, calls, last, workflow_builder>>

(* The task id lists a caller may register: up to MaxWfLen ids, each the id
   of a task or the id of no task *)
CandidateIds == Ids(tasks) \cup {"taskX"}

IdLists == UNION {[1..n -> CandidateIds] : n \in 0..MaxWfLen}

(* A call made on the orchestrator itself: the instance stays the one held,
   and the front end's list is not touched *)
Direct == UNCHANGED <<workflow_builder, active_tasks>>

(* One more call, within the budget of the model *)
Call == ops < MaxOps /\ ops' = ops + 1 /\ Direct

(* The orchestrator driven by one caller, a call at a time: tasks that reach
   the backend, workflows over them, executions and exports *)
Next ==
    \/ Tick
    \/ /\ AllIdle
       /\ Len(tasks) < MaxTasks
       /\ add_task(ReqContent.type, ReqContent.title, ReqContent.description,
                   ReqContent.input_data)
       /\ UNCHANGED ops /\ Direct
    \/ /\ AllIdle /\ Call
       /\ \E task_ids \in IdLists : create_workflow("w1", task_ids)
    \/ /\ AllIdle /\ Call
       /\ \E i \in 1..Len(tasks) : execute_task(1, i)
    \/ /\ AllIdle /\ Call
       /\ \E name \in WorkflowNames : execute_workflow(1, name)
    \/ /\ \E b \in BackendOutcomes, w \in WriteOutcomes : backend_returns(1, b, w)
       /\ UNCHANGED ops /\ Direct
    \/ /\ AllIdle /\ Call
       /\ \E name \in WorkflowNames, format \in Formats, w \in WriteOutcomes :
              export_workflow_results(name, format, w)

Spec == Init /\ [][Next]_vars

SoloCall == ops < MaxSoloOps /\ ops' = ops + 1 /\ Direct

(* Tasks of every kind, each executed directly with execute_task *)
NextTasks ==
    \/ Tick
    \/ /\ AllIdle
       /\ Len(tasks) < MaxSoloTasks
       /\ \E r \in Requests : add_task(r.type, r.title, r.description, r.input_data)
       /\ UNCHANGED ops /\ Direct
    \/ /\ AllIdle /\ SoloCall
       /\ \E i \in 1..Len(tasks) : execute_task(1, i)
    \/ /\ \E b \in BackendOutcomes, w \in WriteOutcomes : backend_returns(1, b, w)
       /\ UNCHANGED ops /\ Direct

SpecTasks == Init /\ [][NextTasks]_vars

KindCall == ops < MaxKindOps /\ ops' = ops + 1 /\ Direct

(* A task of any kind, executed directly *)
NextKinds ==
    \/ Tick
    \/ /\ AllIdle
       /\ Len(tasks) < MaxKindTasks
       /\ \E r \in KindRequests : add_task(r.type, r.title, r.description, r.input_data)
       /\ UNCHANGED ops /\ Direct
    \/ /\ AllIdle /\ KindCall
       /\ \E i \in 1..Len(tasks) : execute_task(1, i)
    \/ /\ \E b \in BackendOutcomes, w \in WriteOutcomes : backend_returns(1, b, w)
       /\ UNCHANGED ops /\ Direct

SpecKinds == Init /\ [][NextKinds]_vars

(* One summarization task, added at time 0 with one of the inputs *)
InitSummaries ==
    /\ now = 0
    /\ \E input_data \in SummaryInputs :
          tasks = <<Task(new_task_id(<<>>, 0), TEXT_SUMMARIZATION, "summary",
                         "summarise", input_data)>>
    /\ workflows = <<>>
    /\ files = <<>>
    /\ calls = [c \in Callers |-> Idle]
    /\ last = NoCall
    /\ ops = 0
    /\ workflow_builder = [api_key |-> [str |-> "sk-test"]]
    /\ active_tasks = <<>>

SummaryCall == ops < MaxSummaryOps /\ ops' = ops + 1 /\ Direct

(* The task is executed, the backend answering with any of the texts *)
NextSummaries ==
    \/ /\ AllIdle /\ SummaryCall
       /\ execute_task(1, 1)
    \/ /\ \E b \in SummaryOutcomes, w \in WriteOutcomes : backend_returns(1, b, w)
       /\ UNCHANGED ops /\ Direct

SpecSummaries == InitSummaries /\ [][NextSummaries]_vars

(* A front-end session from its first run: no instance yet, and possibly
   result files of an earlier session on disk *)
InitSession ==
    /\ tasks = <<>>
    /\ workflows = <<>>
    /\ files \in {<<>>, LeftoverFiles}
    /\ now = 0
    /\ calls = [c \in Callers |-> Idle]
    /\ last = NoCall
    /\ ops = 0
    /\ workflow_builder = None
    /\ active_tasks = <<>>

SessionIdLists == UNION {[1..n -> CandidateIds] : n \in 0..MaxSessionLen}

SessionCall == ops < MaxSessionOps /\ ops' = ops + 1 /\ Direct

(* The session: the instance is built once, tasks are created and deleted
   through the front end, workflows registered under two names, and the
   orchestrator queried and run *)
NextSession ==
    \/ Tick
    \/ /\ workflow_builder = None
       /\ \E api_key \in Credentials, getenv \in Credentials : __init__(api_key, getenv)
       /\ UNCHANGED ops
    \/ /\ workflow_builder # None /\ AllIdle
       /\ Len(tasks) < MaxSessionTasks
       /\ create_task_interface(ReqContent.type, ReqContent.title,
                                ReqContent.description, ReqContent.input_data)
       /\ UNCHANGED ops
    \/ /\ workflow_builder # None
       /\ \E task_id \in CandidateIds : delete_task(task_id)
       /\ UNCHANGED ops
    \/ /\ workflow_builder # None
       /\ \E task_id \in CandidateIds : get_task_status(task_id)
       /\ UNCHANGED ops /\ Direct
    \/ /\ workflow_builder # None /\ AllIdle /\ SessionCall
       /\ \E name \in WorkflowNames, task_ids \in SessionIdLists :
              create_workflow(name, task_ids)
    \/ /\ workflow_builder # None /\ AllIdle /\ SessionCall
       /\ \E i \in 1..Len(tasks) : execute_task(1, i)
    \/ /\ workflow_builder # None /\ AllIdle /\ SessionCall
       /\ \E name \in WorkflowNames : execute_workflow(1, name)
    \/ /\ \E b \in BackendOutcomes, w \in WriteOutcomes : backend_returns(1, b, w)
       /\ UNCHANGED ops /\ Direct

SpecSession == InitSession /\ [][NextSession]_vars

(* Calls that may be cancelled while they wait for the backend *)
NextCancel ==
    \/ Tick
    \/ /\ AllIdle
       /\ Len(tasks) < MaxSoloTasks
       /\ add_task(ReqContent.type, ReqContent.title, ReqContent.description,
                   ReqContent.input_data)
       /\ UNCHANGED ops /\ Direct
    \/ /\ AllIdle /\ SoloCall
       /\ \E task_ids \in SessionIdLists : create_workflow("w1", task_ids)
    \/ /\ AllIdle /\ SoloCall
       /\ \E i \in 1..Len(tasks) : execute_task(1, i)
    \/ /\ AllIdle /\ SoloCall
       /\ \E name \in WorkflowNames : execute_workflow(1, name)
    \/ /\ \E b \in BackendOutcomes, w \in WriteOutcomes : backend_returns(1, b, w)
       /\ UNCHANGED ops /\ Direct
    \/ /\ cancel(1)
       /\ UNCHANGED ops /\ Direct

SpecCancel == Init /\ [][NextCancel]_vars

OverlapCall == ops < MaxOverlapOps /\ ops' = ops + 1 /\ Direct

(* Two callers on one event loop (two asyncio tasks, or asyncio.gather): a
   caller that is not suspended may start a call while the other waits for
   the backend, and the backend answers the two in any order *)
NextOverlap ==
    \/ Tick
    \/ /\ AllIdle
       /\ Len(tasks) < MaxOverlapTasks
       /\ add_task(ReqContent.type, ReqContent.title, ReqContent.description,
                   ReqContent.input_data)
       /\ UNCHANGED ops /\ Direct
    \/ /\ AllIdle
       /\ "w1" \notin DOMAIN workflows
       /\ \E task_ids \in SessionIdLists : create_workflow("w1", task_ids)
       /\ UNCHANGED ops /\ Direct
    \/ /\ OverlapCall
       /\ \E c \in Callers, i \in 1..Len(tasks) :
              calls[c] = Idle /\ execute_task(c, i)
    \/ /\ OverlapCall
       /\ \E c \in Callers, name \in WorkflowNames :
              calls[c] = Idle /\ execute_workflow(c, name)
    \/ /\ \E c \in Callers, b \in BackendOutcomes, w \in WriteOutcomes :
              backend_returns(c, b, w)
       /\ UNCHANGED ops /\ Direct

SpecOverlap == Init /\ [][NextOverlap]_vars

----------------------------------------------------------------------------
(* Properties *)

(* The ids of the tasks at the positions of a list *)
IdsAt(positions) == [k \in 1..Len(positions) |-> tasks[positions[k]].id]

IsPrefix(s, t) == Len(s) <= Len(t) /\ s = SubSeq(t, 1, Len(s))

NoRepetition(seq) == \A i, j \in 1..Len(seq) : seq[i] = seq[j] => i = j

(* A list of distinct ids of existing tasks *)
ListOfTasks(task_ids) == NoRepetition(task_ids) /\ Range(task_ids) \subseteq Ids(tasks)

(* C1: execute_workflow on a workflow whose id list names existing tasks
   starts their executions in the order of that list, and the execution that
   raises is the last one started *)
C1_ExecutesInListOrder ==
    /\ \A c \in Callers :
          (calls[c] # Idle /\ calls[c].op = "execute_workflow"
                /\ ListOfTasks(calls[c].task_ids))
             => IsPrefix(IdsAt(calls[c].started), calls[c].task_ids)
    /\ (last.op = "execute_workflow" /\ ListOfTasks(last.task_ids))
          => /\ IsPrefix(IdsAt(last.started), last.task_ids)
             /\ last.outcome = "returned" => IdsAt(last.started) = last.task_ids
             /\ (last.outcome = "raised" /\ last.started # <<>>)
                   => tasks[last.started[Len(last.started)]].status = "failed"

(* C2: the tasks array of the file export_workflow_results writes lists the
   workflow's existing tasks in the order of the workflow's id list *)
C2_ExportInListOrder ==
    (last.op = "export_workflow_results" /\ last.outcome = "returned"
          /\ NoRepetition(last.task_ids))
       => LET exported == files[export_filename(last.arg.name)].tasks
          IN  [k \in 1..Len(exported) |-> exported[k].id]
                 = SelectSeq(last.task_ids, LAMBDA id : id \in Ids(tasks))

(* C3: after execute_task returns, the task is completed, its output_data is
   the non-empty result returned, and completed_at is set and not earlier
   than created_at *)
C3_SuccessRecorded ==
    (last.op = "execute_task" /\ last.outcome = "returned")
       => LET task == tasks[last.arg.task]
          IN  /\ task.status = "completed"
              /\ task.output_data # None
              /\ task.output_data = last.value.result
              /\ DOMAIN task.output_data # {}
              /\ task.completed_at # None
              /\ task.completed_at.iso >= task.created_at.iso

C3_Witness ==
    /\ last.op = "execute_task"
    /\ last.outcome = "returned"
    /\ tasks[last.arg.task].type = TEXT_SUMMARIZATION
    /\ tasks[last.arg.task].completed_at # None
    /\ tasks[last.arg.task].completed_at.iso > tasks[last.arg.task].created_at.iso

(* C4: after execute_task raises, the task is failed and output_data.error
   is the non-empty message of the failure *)
C4_FailureRecorded ==
    (last.op = "execute_task" /\ last.outcome = "raised")
       => LET task == tasks[last.arg.task]
          IN  /\ task.status = "failed"
              /\ "error" \in DOMAIN task.output_data
              /\ task.output_data.error = last.value.error
              /\ task.output_data.error # ""

(* The failure is the failure to write the result file *)
C4_Witness ==
    /\ last.op = "execute_task"
    /\ last.outcome = "raised"
    /\ tasks[last.arg.task].status = "failed"
    /\ \E w \in WriteOutcomes :
          ~w.ok /\ tasks[last.arg.task].output_data = [error |-> w.error]

(* C5: a completed task has output_data and completed_at; a failed task has
   an error entry in output_data *)
C5_StatusInvariant ==
    \A i \in 1..Len(tasks) :
       /\ tasks[i].status = "completed"
             => tasks[i].output_data # None /\ tasks[i].completed_at # None
       /\ tasks[i].status = "failed"
             => "error" \in DOMAIN tasks[i].output_data

(* A completed task beside one that failed after it had completed before *)
C5_Witness ==
    \E i, j \in 1..Len(tasks) :
       /\ tasks[i].status = "completed"
       /\ tasks[j].status = "failed"
       /\ tasks[j].completed_at # None

(* C6: no two tasks of the list have the same id *)
C6_UniqueIds ==
    \A i, j \in 1..Len(tasks) : tasks[i].id = tasks[j].id => i = j

(* Three tasks, two of them added within the same second *)
C6_Witness ==
    /\ Len(tasks) = 3
    /\ tasks[1].created_at = tasks[2].created_at
    /\ tasks[2].created_at # tasks[3].created_at

(* The state add_task leaves, for the arguments r *)
FreshTask(r) ==
    LET task == tasks'[Len(tasks')]
    IN  /\ Len(tasks') = Len(tasks) + 1
        /\ SubSeq(tasks', 1, Len(tasks)) = tasks
        /\ task.status = "pending"
        /\ task.output_data = None
        /\ task.completed_at = None
        /\ task.type = r.type
        /\ task.title = r.title
        /\ task.description = r.description
        /\ task.input_data = r.input_data
        /\ task.created_at = isoformat(now)
        /\ last'.outcome = "returned"
        /\ last'.value = [id |-> task.id]
        /\ UNCHANGED <<workflows, files>>

(* C7: add_task appends a pending task with no output and no completion
   time, carrying the arguments, and changes nothing else *)
C7_FreshTask ==
    [][\A r \in Requests :
          add_task(r.type, r.title, r.description, r.input_data) => FreshTask(r)]_vars

(* A task has just been added after another was executed *)
C7_Witness ==
    /\ last.op = "add_task"
    /\ Len(tasks) = 2
    /\ tasks[1].status = "completed"
    /\ tasks[2].status = "pending"
    /\ last.value = [id |-> tasks[2].id]

(* C8: export_workflow_results with a format other than json returns
   normally and writes no file *)
C8_OtherFormatAccepted ==
    [][\A name \in DOMAIN workflows, format \in Formats \ {"json"}, w \in WriteOutcomes :
          export_workflow_results(name, format, w)
             => last'.outcome = "returned" /\ files' = files]_vars

(* A value of a task record and the value json.load gives back for it, the
   member of an enumeration standing for its string tag *)
SameValue(python, parsed) ==
    IF "enum" \in DOMAIN python THEN parsed = [str |-> python.value] ELSE parsed = python

(* C9: the tasks entries of the exported file have the field values of the
   records list_tasks returns for the same ids *)
C9_ExportMatchesListTasks ==
    (last.op = "export_workflow_results" /\ last.outcome = "returned")
       => LET exported == files[export_filename(last.arg.name)].tasks
          IN  \A k \in 1..Len(exported) :
                 \E i \in 1..Len(list_tasks) :
                    /\ list_tasks[i].id = exported[k].id
                    /\ SameValue(list_tasks[i].type, exported[k].type)
                    /\ list_tasks[i].title = exported[k].title
                    /\ list_tasks[i].description = exported[k].description
                    /\ list_tasks[i].input_data = exported[k].input_data
                    /\ list_tasks[i].output_data = exported[k].output_data
                    /\ list_tasks[i].status = exported[k].status
                    /\ list_tasks[i].created_at = exported[k].created_at
                    /\ list_tasks[i].completed_at = exported[k].completed_at

(* C10: execute_workflow and export_workflow_results on an unregistered name
   raise and change no task, no workflow, no file, and start no execution *)
C10_UnregisteredName ==
    [][\A name \in WorkflowNames \ DOMAIN workflows :
          (\/ \E c \in Callers : execute_workflow(c, name)
           \/ \E format \in Formats, w \in WriteOutcomes :
                 export_workflow_results(name, format, w))
             => /\ last'.outcome = "raised"
                /\ last'.arg.name = name
                /\ UNCHANGED <<tasks, workflows, files, calls>>]_vars

(* An unregistered name has been refused while tasks and a workflow exist *)
C10_Witness ==
    /\ last.op = "execute_workflow"
    /\ last.outcome = "raised"
    /\ last.arg.name \notin DOMAIN workflows
    /\ Len(tasks) > 0
    /\ DOMAIN workflows # {}

(* create_workflow stores the ids it is given, whether or not they match a
   task; execute_workflow on a workflow none of whose ids matches a task
   returns the empty list at once: no task touched, no backend call *)
DanglingIdsAccepted ==
    [][/\ (ops' # ops /\ last'.op = "create_workflow")
            => /\ last'.outcome = "returned"
               /\ workflows'[last'.arg.name] = last'.task_ids
       /\ \A name \in DOMAIN workflows :
             (Range(workflows[name]) \cap Ids(tasks) = {}
                   /\ \E c \in Callers : execute_workflow(c, name))
                => /\ last'.outcome = "returned"
                   /\ last'.value = [results |-> <<>>]
                   /\ last'.started = <<>>
                   /\ UNCHANGED <<tasks, files, calls>>]_vars

(* When execute_workflow has returned, it has returned one result per id of
   the workflow that is the id of a task, the results of these tasks *)
OneResultPerMatchingId ==
    (last.op = "execute_workflow" /\ last.outcome = "returned")
       => LET matched == Range(last.task_ids) \cap Ids(tasks)
              results == last.value.results
          IN  /\ Len(results) = Cardinality(matched)
              /\ Range(IdsAt(last.started)) = matched
              /\ \A k \in 1..Len(results) :
                    results[k] = tasks[last.started[k]].output_data

(* C11: create_workflow accepts ids that match no task and execute_workflow
   skips them: an empty result list without a backend call when no id
   matches, and in general one result per id that matches a task *)
C11_DanglingIdsSkipped == DanglingIdsAccepted /\ []OneResultPerMatchingId

(* A workflow that names a task and the id of no task has been executed *)
C11_Witness ==
    /\ last.op = "execute_workflow"
    /\ last.outcome = "returned"
    /\ "taskX" \in Range(last.task_ids)
    /\ Len(last.value.results) = 1
    /\ Len(tasks) = 2

(* C12: get_task_status returns, and never raises: a record with an error
   entry for an id that matches no task, the current record of the task for
   the id of a task; it changes no task and no workflow *)
C12_StatusQuery ==
    [][\A task_id \in CandidateIds :
          get_task_status(task_id)
             => /\ last'.outcome = "returned"
                /\ task_id \notin Ids(tasks) => "error" \in DOMAIN last'.value
                /\ \A i \in 1..Len(tasks) :
                      tasks[i].id = task_id
                         => /\ last'.value = asdict(tasks'[i])
                            /\ "error" \notin DOMAIN last'.value
                /\ UNCHANGED <<tasks, workflows, files, calls>>]_vars

(* The status of a task was asked while its execution waits for the backend,
   beside a registered workflow *)
C12_Witness ==
    /\ last.op = "get_task_status"
    /\ "status" \in DOMAIN last.value
    /\ last.value.status = "running"
    /\ DOMAIN workflows # {}

(* The ids of the records list_tasks returns *)
ListedIds == [i \in 1..Len(list_tasks) |-> list_tasks[i].id]

(* C13: no step removes or reorders a task: the ids list_tasks returns before
   a step are a prefix of those it returns after it, add_task adds exactly
   the id it returns, and the front end's delete_task leaves the list as it is *)
C13_TasksNeverDeleted ==
    [][/\ IsPrefix(ListedIds, ListedIds')
       /\ Len(list_tasks') = Len(tasks')
       /\ (tasks' # tasks /\ last'.op = "add_task")
             => ListedIds' = Append(ListedIds, last'.value.id)
       /\ \A task_id \in CandidateIds :
             delete_task(task_id) => list_tasks' = list_tasks]_vars

(* The front end has deleted the first of two tasks from its own list, after
   the task was executed *)
C13_Witness ==
    /\ Len(tasks) = 2
    /\ Len(active_tasks) = 1
    /\ active_tasks[1] = tasks[2].id
    /\ tasks[1].status = "completed"

(* C14: create_workflow(name, ids) makes the list of name exactly ids,
   whatever was stored under name, adds no other name, and leaves every
   other workflow, every task and every file as it was *)
C14_WorkflowReplaced ==
    [][\A name \in WorkflowNames, task_ids \in SessionIdLists :
          create_workflow(name, task_ids)
             => /\ workflows'[name] = task_ids
                /\ DOMAIN workflows' = DOMAIN workflows \cup {name}
                /\ \A other \in DOMAIN workflows \ {name} :
                      workflows'[other] = workflows[other]
                /\ UNCHANGED <<tasks, files, calls>>]_vars

(* The number of workflows whose list holds the id *)
Referenced(id) ==
    Cardinality({name \in DOMAIN workflows : id \in Range(workflows[name])})

(* A workflow has been registered again with another list, and of two tasks
   one is in both workflows and the other in none *)
C14_Witness ==
    /\ last.op = "create_workflow"
    /\ ops = 2
    /\ Len(tasks) = 2
    /\ Referenced(tasks[1].id) = 2
    /\ Referenced(tasks[2].id) = 0
    /\ workflows[last.arg.name] = last.task_ids
    /\ Len(last.task_ids) = 2

(* Nothing, or the empty string *)
NoCredential(v) == v \in {None, [str |-> ""]}

(* C17: the constructor raises when neither the argument nor the environment
   holds a credential, and then no instance exists; otherwise it gives an
   instance with no task and no workflow, the files on disk left alone *)
C17_Construction ==
    [][\A api_key \in Credentials, getenv \in Credentials :
          __init__(api_key, getenv)
             => IF NoCredential(api_key) /\ NoCredential(getenv)
                THEN /\ last'.outcome = "raised"
                     /\ workflow_builder' = None
                     /\ UNCHANGED <<tasks, workflows, files>>
                ELSE /\ last'.outcome = "returned"
                     /\ workflow_builder' # None
                     /\ ~NoCredential(workflow_builder'.api_key)
                     /\ tasks' = <<>>
                     /\ workflows' = <<>>
                     /\ files' = files]_vars

(* An instance built with the key of the environment, beside a file of an
   earlier instance *)
C17_Witness ==
    /\ last.op = "__init__"
    /\ last.outcome = "returned"
    /\ last.arg.api_key = None
    /\ workflow_builder # None
    /\ files = LeftoverFiles
    /\ tasks = <<>>
    /\ workflows = <<>>

(* C15: an execution of a text_summarization task that reached the backend's
   answer never ends in a division error, and its result has original_length
   the number of words of the input text, summary_length the number of words
   of the answer, and compression_ratio their quotient, 0 for the empty text *)
C15_SummaryLengths ==
    (last.op = "execute_task" /\ tasks[last.arg.task].type = TEXT_SUMMARIZATION)
       => LET text == Get(tasks[last.arg.task].input_data, "text", <<>>)
              result == last.value.result
          IN  /\ last.outcome = "raised" => last.value.error # "division by zero"
              /\ last.outcome = "returned"
                    => /\ result.original_length = WordCount(text)
                       /\ result.summary_length = WordCount(result.summary)
                       /\ result.compression_ratio
                             = IF text = <<>> THEN Ratio(0, 1)
                               ELSE Ratio(result.summary_length, result.original_length)
                       /\ result.compression_ratio.den # 0

(* C16: no step changes the id, type, title, description or created_at of a
   task that exists *)
C16_IdentityFieldsFixed ==
    [][\A i \in 1..Len(tasks) :
          /\ i <= Len(tasks')
          /\ tasks'[i].id = tasks[i].id
          /\ tasks'[i].type = tasks[i].type
          /\ tasks'[i].title = tasks[i].title
          /\ tasks'[i].description = tasks[i].description
          /\ tasks'[i].created_at = tasks[i].created_at]_vars

(* A workflow has been exported after one of its tasks completed and another
   failed, at a later time than the tasks were created *)
C16_Witness ==
    /\ last.op = "export_workflow_results"
    /\ last.outcome = "returned"
    /\ \E i, j \in 1..Len(tasks) :
          /\ tasks[i].status = "completed"
          /\ tasks[i].completed_at.iso > tasks[i].created_at.iso
          /\ tasks[j].status = "failed"
          /\ {tasks[i].id, tasks[j].id} \subseteq Range(last.task_ids)

(* C18: an execute_task call that raises leaves completed_at None on a task
   whose completed_at was None *)
C18_NoCompletionTimeOnFailure ==
    [][\A i \in 1..Len(tasks) :
          (/\ tasks[i].completed_at = None
           /\ last' # last
           /\ last'.op = "execute_task"
           /\ last'.outcome = "raised"
           /\ last'.arg.task = i)
             => tasks'[i].completed_at = None]_vars

(* C19: a step in which a task of a running workflow fails ends the call by
   raising; the tasks started before it are completed, each with the result
   obtained and its result file, no file is removed or changed, and no step
   of the call touches a task later in the list than the one it is at *)
C19_AbortKeepsPartialResults ==
    [][/\ \A name \in DOMAIN workflows :
             (\E c \in Callers : execute_workflow(c, name))
                => LET todo == tasks_in(tasks, workflows[name])
                   IN  \A k \in 2..Len(todo) : tasks'[todo[k]] = tasks[todo[k]]
       /\ \A c \in Callers :
             LET cl == calls[c]
                 failing == Len(last'.started)
             IN  (cl # Idle /\ cl.op = "execute_workflow")
                    => /\ (tasks[cl.todo[cl.pos]].status = "running"
                              /\ tasks'[cl.todo[cl.pos]].status = "failed")
                          => calls'[c] = Idle /\ last'.outcome = "raised"
                       /\ (calls'[c] = Idle /\ last'.outcome = "raised")
                          => /\ last'.op = "execute_workflow"
                             /\ tasks'[cl.todo[failing]].status = "failed"
                             /\ files' = files
                             /\ \A k \in 1..(failing - 1) :
                                   LET task == tasks'[cl.todo[k]]
                                   IN  /\ task.status = "completed"
                                       /\ task.output_data = cl.results[k]
                                       /\ result_filename(task) \in DOMAIN files'
                                       /\ files'[result_filename(task)].output_data
                                             = cl.results[k]
                             /\ \A k \in (failing + 1)..Len(cl.todo) :
                                   /\ tasks'[cl.todo[k]] = tasks[cl.todo[k]]
                                   /\ cl.todo[k] \notin Range(last'.started)
                       /\ calls'[c] # Idle
                          => \A k \in (calls'[c].pos + 1)..Len(cl.todo) :
                                tasks'[cl.todo[k]] = tasks[cl.todo[k]]]_vars

(* A workflow of three tasks has stopped at its second task: the first is
   completed, the second failed, the third still pending *)
C19_Witness ==
    /\ last.op = "execute_workflow"
    /\ last.outcome = "raised"
    /\ Len(tasks) = 3
    /\ last.started = <<1, 2>>
    /\ tasks[1].status = "completed"
    /\ tasks[2].status = "failed"
    /\ tasks[3].status = "pending"
    /\ result_filename(tasks[1]) \in DOMAIN files

(* After execute_task has returned, the results directory holds under
   <id>_<type tag>.json the record of the task: completed, with the result
   returned and a completion time, the type written as its string tag *)
ResultFileIsRecord ==
    (last.op = "execute_task" /\ last.outcome = "returned")
       => LET task == tasks[last.arg.task]
              name == task.id \o "_" \o task.type.value \o ".json"
          IN  /\ name \in DOMAIN files
              /\ files[name].id = task.id
              /\ SameValue(task.type, files[name].type)
              /\ files[name].title = task.title
              /\ files[name].description = task.description
              /\ files[name].input_data = task.input_data
              /\ files[name].output_data = last.value.result
              /\ files[name].status = "completed"
              /\ files[name].created_at = task.created_at
              /\ files[name].completed_at = task.completed_at
              /\ files[name].completed_at # None

(* An execute_task call that raises without an answer of the backend writes
   no file *)
NoFileWithoutAnswer ==
    [][(/\ last' # last
        /\ last'.op = "execute_task"
        /\ last'.outcome = "raised"
        /\ \A w \in WriteOutcomes : last'.value.error # Get(w, "error", ""))
          => files' = files]_vars

(* C20: when execute_task returns, the result file of the task holds the
   task record as it is in memory, the type as its string tag; an execution
   that fails before the backend returns writes no file *)
C20_ResultFileHoldsRecord == []ResultFileIsRecord /\ NoFileWithoutAnswer

(* The positions of the tasks whose status is running *)
Running == {i \in 1..Len(tasks) : tasks[i].status = "running"}

(* C21: while execute_workflow waits for the backend, the task it is at is
   the only one running and every task it started before is completed; when
   no call is in progress no task is running *)
C21_OneTaskAtATime ==
    /\ Cardinality(Running) <= 1
    /\ AllIdle => Running = {}
    /\ \A c \in Callers :
          (calls[c] # Idle /\ calls[c].op = "execute_workflow")
             => LET cl == calls[c]
                IN  /\ Running = {cl.todo[cl.pos]}
                    /\ cl.started = SubSeq(cl.todo, 1, cl.pos)
                    /\ \A k \in 1..(cl.pos - 1) :
                          tasks[cl.todo[k]].status = "completed"

(* The workflow waits for the backend at the third of its three tasks *)
C21_Witness ==
    \E c \in Callers :
       /\ calls[c] # Idle
       /\ calls[c].op = "execute_workflow"
       /\ calls[c].pos = 3
       /\ tasks[calls[c].todo[3]].status = "running"

(* C22: a call of execute_task or execute_workflow that has begun ends by
   returning or by raising with the failure recorded, and a task is running
   only while a call waits for the backend on it: no call ends otherwise
   and no task is left running *)
C22_RunsToCompletion ==
    /\ last.op \in {"execute_task", "execute_workflow"}
          => last.outcome \in {"returned", "raised"}
    /\ \A i \in 1..Len(tasks) :
          tasks[i].status = "running"
             => \E c \in Callers :
                   calls[c] # Idle /\ calls[c].todo[calls[c].pos] = i

(* An execute_task call has ended by returning or by raising *)
ExecuteTaskEnded ==
    last.op = "execute_task" /\ last.outcome \in {"returned", "raised"}

(* C23, as stated: every execute_task call that has ended made exactly one
   backend call *)
C23_OneBackendCall == ExecuteTaskEnded => Len(last.invoked) = 1

(* The data_path of input_data is absent or names no existing file *)
NoSuchFile(input_data) ==
    \/ "data_path" \notin DOMAIN input_data
    \/ input_data.data_path \notin ExistingPaths

(* The data_path of input_data has an extension other than .csv and .json *)
OtherExtension(input_data) ==
    /\ "data_path" \in DOMAIN input_data
    /\ input_data.data_path.suffix \notin {".csv", ".json"}

(* The task has one of the six types, its input is a dict, and for a
   data_analysis task the file exists, is a .csv or .json and can be read *)
ReachesBackend(task) ==
    /\ task.type \in TaskType
    /\ task.input_data # None
    /\ task.type = DATA_ANALYSIS
          => /\ ~NoSuchFile(task.input_data)
             /\ ~OtherExtension(task.input_data)
             /\ task.input_data.data_path \notin UnreadablePaths

(* C23, amended: an execute_task call that has ended made one backend call
   if the task passed the checks made before the call, whether the call then
   succeeded or failed, and none if it did not *)
C23_BackendCallIffReached ==
    ExecuteTaskEnded
       => Len(last.invoked) = IF ReachesBackend(tasks[last.arg.task]) THEN 1 ELSE 0

(* A data_analysis call has failed after its one backend call *)
C23_Witness ==
    /\ last.op = "execute_task"
    /\ last.outcome = "raised"
    /\ tasks[last.arg.task].type = DATA_ANALYSIS
    /\ last.invoked = <<last.arg.task>>

(* C24: a data_analysis task whose input has no data_path, names no existing
   file or names a file that is no .csv or .json never reaches the backend:
   execute_task raises, the task is failed with the error recorded, no
   result file exists, and a file that does not exist is reported as such
   whatever its extension *)
C24_AnalysisInputRejected ==
    \A i \in 1..Len(tasks) :
       LET task == tasks[i]
           rejected == /\ task.type = DATA_ANALYSIS
                       /\ task.input_data # None
                       /\ NoSuchFile(task.input_data) \/ OtherExtension(task.input_data)
       IN  rejected
              => /\ \A c \in Callers :
                       calls[c] # Idle => calls[c].todo[calls[c].pos] # i
                 /\ task.status \in {"pending", "failed"}
                 /\ result_filename(task) \notin DOMAIN files
                 /\ (last.op = "execute_task" /\ last.arg.task = i)
                       => /\ last.outcome = "raised"
                          /\ last.invoked = <<>>
                          /\ task.status = "failed"
                          /\ task.output_data = [error |-> last.value.error]
                          /\ last.value.error
                                = IF NoSuchFile(task.input_data)
                                  THEN "data file does not exist"
                                  ELSE "unsupported file type"

(* The file named does not exist and its extension is not accepted either *)
C24_Witness ==
    /\ last.op = "execute_task"
    /\ last.outcome = "raised"
    /\ tasks[last.arg.task].type = DATA_ANALYSIS
    /\ tasks[last.arg.task].input_data = [data_path |-> [name |-> "missing", suffix |-> ".txt"]]
    /\ tasks[last.arg.task].status = "failed"

(* C25: add_task adds a task whose type is none of the six; execute_task on
   such a task raises the unsupported-type error at once, the task is failed
   with that error, the backend is not called and no file is written *)
C25_UnsupportedTypeFailsOnExecution ==
    [][/\ add_task(ReqUnsupported.type, ReqUnsupported.title,
                   ReqUnsupported.description, ReqUnsupported.input_data)
             => /\ last'.outcome = "returned"
                /\ Len(tasks') = Len(tasks) + 1
                /\ tasks'[Len(tasks')].type = ReqUnsupported.type
       /\ \A i \in 1..Len(tasks) :
             (tasks[i].type \notin TaskType /\ \E c \in Callers : execute_task(c, i))
                => /\ last'.outcome = "raised"
                   /\ last'.value = [error |-> "unsupported task type"]
                   /\ tasks'[i].status = "failed"
                   /\ tasks'[i].output_data = last'.value
                   /\ last'.invoked = <<>>
                   /\ UNCHANGED <<files, calls>>]_vars

(* A task of a type that is none of the six has been executed *)
C25_Witness ==
    /\ last.op = "execute_task"
    /\ last.outcome = "raised"
    /\ tasks[last.arg.task].type \notin TaskType
    /\ tasks[last.arg.task].status = "failed"
    /\ files = <<>>

(* C26: a text_summarization task whose text has no words, be it empty or
   made of whitespace only, does not end failed with a division error, and
   its result when it completes has compression_ratio 0 *)
C26_NoWordsGivesRatioZero ==
    \A i \in 1..Len(tasks) :
       LET task == tasks[i]
           no_words == /\ task.type = TEXT_SUMMARIZATION
                       /\ task.input_data # None
                       /\ WordCount(Get(task.input_data, "text", <<>>)) = 0
       IN  (no_words /\ last.op = "execute_task" /\ last.arg.task = i
               /\ last.invoked = <<i>>)
              => (task.status = "failed"
                     => task.output_data # [error |-> "division by zero"])
                 /\ (task.status = "completed"
                        => task.output_data.compression_ratio = Ratio(0, 1))

(* C27: a status is one of the four; no step takes a task back to pending;
   execute_task, and execute_workflow for the first task of its run, sets a
   task that was completed or failed running again and calls the backend for
   it; and a running task that fails gets the error as its output_data *)
C27_ExecutedAgain ==
    [][\A i \in 1..Len(tasks) :
          /\ tasks[i].status \in {"pending", "running", "completed", "failed"}
          /\ tasks'[i].status \in {"pending", "running", "completed", "failed"}
          /\ tasks[i].status # "pending" => tasks'[i].status # "pending"
          /\ (tasks[i].status \in {"completed", "failed"} /\ ReachesBackend(tasks[i]))
                => \A c \in Callers :
                      /\ execute_task(c, i)
                            => /\ tasks'[i].status = "running"
                               /\ calls'[c] # Idle
                               /\ calls'[c].invoked = <<i>>
                      /\ \A name \in DOMAIN workflows :
                            (/\ execute_workflow(c, name)
                             /\ tasks_in(tasks, workflows[name]) # <<>>
                             /\ tasks_in(tasks, workflows[name])[1] = i)
                               => /\ tasks'[i].status = "running"
                                  /\ calls'[c] # Idle
                                  /\ calls'[c].invoked = <<i>>
          /\ (tasks[i].status = "running" /\ tasks'[i].status = "failed")
                => DOMAIN tasks'[i].output_data = {"error"}]_vars

(* A task that completed, its result file written, has been executed again
   and failed: its output_data is the error *)
C27_Witness ==
    \E i \in 1..Len(tasks) :
       /\ tasks[i].status = "failed"
       /\ DOMAIN tasks[i].output_data = {"error"}
       /\ result_filename(tasks[i]) \in DOMAIN files

(* C28: an execute_workflow call starts no task twice, however often its id
   occurs in the workflow's list, and returns as many results as there are
   distinct ids in the list that are ids of tasks; the tasks array that
   export_workflow_results writes holds no task twice and has that length *)
C28_DuplicateIdsCollapse ==
    /\ \A c \in Callers : calls[c] # Idle => NoRepetition(calls[c].started)
    /\ last.op = "execute_workflow"
          => /\ NoRepetition(last.started)
             /\ last.outcome = "returned"
                   => /\ Len(last.value.results) = Len(last.started)
                      /\ Len(last.value.results)
                            = Cardinality(Range(last.task_ids) \cap Ids(tasks))
    /\ (last.op = "export_workflow_results" /\ last.outcome = "returned")
          => LET exported == files[export_filename(last.arg.name)].tasks
             IN  /\ NoRepetition([k \in 1..Len(exported) |-> exported[k].id])
                 /\ Len(exported) = Cardinality(Range(last.task_ids) \cap Ids(tasks))

(* A workflow that lists the id of a task twice has been executed and has
   returned fewer results than its list has entries *)
C28_Witness ==
    /\ last.op = "execute_workflow"
    /\ last.outcome = "returned"
    /\ ~NoRepetition(last.task_ids)
    /\ Range(last.task_ids) \subseteq Ids(tasks)
    /\ Len(last.value.results) < Len(last.task_ids)

(* A completed task holds a result and its completion time, a failed task an
   error record; and when every call has ended, the task of the execute_task
   call that ended last holds what that call returned or raised *)
SettledRecord ==
    /\ \A i \in 1..Len(tasks) :
          /\ tasks[i].status = "completed"
                => /\ tasks[i].output_data # None
                   /\ "error" \notin DOMAIN tasks[i].output_data
                   /\ tasks[i].completed_at # None
          /\ tasks[i].status = "failed" => DOMAIN tasks[i].output_data = {"error"}
    /\ (AllIdle /\ last.op = "execute_task")
          => LET task == tasks[last.arg.task]
             IN  /\ last.outcome = "returned"
                       => task.status = "completed" /\ task.output_data = last.value.result
                 /\ last.outcome = "raised"
                       => task.status = "failed" /\ task.output_data = last.value

(* The call of caller c that resumes from the backend writes its own outcome
   to the task it waited for, whatever another call wrote there meanwhile *)
LastSettlerWrites ==
    [][\A c \in Callers, b \in BackendOutcomes, w \in WriteOutcomes :
          backend_returns(c, b, w)
             => LET i == calls[c].todo[calls[c].pos]
                    completed == tasks'[i].status = "completed"
                    failed == /\ tasks'[i].status = "failed"
                              /\ tasks'[i].output_data = last'.value
                IN  IF calls'[c] # Idle
                    THEN /\ tasks'[i].status = "completed"
                         /\ tasks'[i].output_data
                               = calls'[c].results[Len(calls'[c].results)]
                    ELSE IF last'.outcome = "returned"
                    THEN /\ tasks'[i].status = "completed"
                         /\ tasks'[i].output_data
                               = IF last'.op = "execute_task"
                                 THEN last'.value.result
                                 ELSE last'.value.results[Len(last'.value.results)]
                    ELSE IF last'.started[Len(last'.started)] = i
                    THEN /\ tasks'[i].status = "failed"
                         /\ tasks'[i].output_data = last'.value
                    ELSE tasks'[i].status = "completed"]_vars

(* C29: with two callers whose executions of one task overlap, the task
   record is consistent in every state, and each call that settles
   overwrites the status and output_data with its own outcome, so that the
   record is that of the call that settled last *)
C29_OverlapLastSettlerWins == LastSettlerWrites /\ []SettledRecord

(* One call has settled a task while another call, begun before that, is
   still waiting for the backend on the same task *)
C29_Witness ==
    \E c \in Callers :
       /\ calls[c] # Idle
       /\ tasks[calls[c].todo[calls[c].pos]].status \in {"completed", "failed"}
       /\ last.outcome \in {"returned", "raised"}

====
